---------------------------- MODULE Spec2Model ----------------------------
(***************************************************************************)
(* Model of ghostty-to-phpstorm.py: the Ghostty theme parser, the colour   *)
(* derivation primitives (adjust_brightness, blend_colors), the three      *)
(* document generators and the main driver (single-file and batch mode).   *)
(*                                                                         *)
(* Strings are sequences of one-character strings, so that strip, split,   *)
(* lstrip, upper and int(.., 16) are computed as the code computes them.   *)
(* Python floats are IEEE-754 binary64 values; they are modelled exactly   *)
(* as sign * m * 2^e with an arbitrary-precision mantissa and every        *)
(* arithmetic operation rounded to 53 bits, round-half-to-even.            *)
(***************************************************************************)
EXTENDS Integers, Sequences, FiniteSets, TLC

(***************************************************************************)
(* Arbitrary-precision naturals: little-endian sequences of limbs in base  *)
(* 2^15 without leading (most significant) zero limbs; <<>> is zero.       *)
(***************************************************************************)
LimbBase == 2^15

Max2(a, b) == IF a >= b THEN a ELSE b

Min2(a, b) == IF a <= b THEN a ELSE b

Limb(a, i) == IF i <= Len(a) THEN a[i] ELSE 0

RECURSIVE BigTrim(_)
BigTrim(a) ==
    IF a = <<>> THEN a
    ELSE IF a[Len(a)] = 0 THEN BigTrim(SubSeq(a, 1, Len(a) - 1))
    ELSE a

RECURSIVE BigFromNat(_)
BigFromNat(n) ==
    IF n = 0 THEN <<>> ELSE <<n % LimbBase>> \o BigFromNat(n \div LimbBase)

RECURSIVE BigToNat(_)
BigToNat(a) ==
    IF a = <<>> THEN 0 ELSE a[1] + LimbBase * BigToNat(Tail(a))

RECURSIVE BigAddFrom(_, _, _, _)
BigAddFrom(a, b, i, carry) ==
    IF i > Max2(Len(a), Len(b))
    THEN (IF carry = 0 THEN <<>> ELSE <<carry>>)
    ELSE LET s == Limb(a, i) + Limb(b, i) + carry
         IN  <<s % LimbBase>> \o BigAddFrom(a, b, i + 1, s \div LimbBase)

BigAdd(a, b) == BigAddFrom(a, b, 1, 0)

RECURSIVE BigSubFrom(_, _, _, _)
BigSubFrom(a, b, i, borrow) ==
    IF i > Len(a) THEN <<>>
    ELSE LET d == Limb(a, i) - Limb(b, i) - borrow
         IN  IF d < 0
             THEN <<d + LimbBase>> \o BigSubFrom(a, b, i + 1, 1)
             ELSE <<d>> \o BigSubFrom(a, b, i + 1, 0)

\* a - b for a >= b
BigSub(a, b) == BigTrim(BigSubFrom(a, b, 1, 0))

RECURSIVE BigCmpFrom(_, _, _)
BigCmpFrom(a, b, i) ==
    IF i = 0 THEN 0
    ELSE IF a[i] > b[i] THEN 1
    ELSE IF a[i] < b[i] THEN -1
    ELSE BigCmpFrom(a, b, i - 1)

\* -1, 0, 1 as a < b, a = b, a > b
BigCmp(a, b) ==
    IF Len(a) > Len(b) THEN 1
    ELSE IF Len(a) < Len(b) THEN -1
    ELSE BigCmpFrom(a, b, Len(a))

RECURSIVE BigMulLimbFrom(_, _, _, _)
BigMulLimbFrom(a, d, i, carry) ==
    IF i > Len(a) THEN (IF carry = 0 THEN <<>> ELSE <<carry>>)
    ELSE LET p == a[i] * d + carry
         IN  <<p % LimbBase>> \o BigMulLimbFrom(a, d, i + 1, p \div LimbBase)

\* a * d for one limb d
BigMulLimb(a, d) == IF d = 0 THEN <<>> ELSE BigMulLimbFrom(a, d, 1, 0)

RECURSIVE BigMulFrom(_, _, _)
BigMulFrom(a, b, i) ==
    IF i > Len(b) THEN <<>>
    ELSE BigAdd(BigMulLimb(a, b[i]), <<0>> \o BigMulFrom(a, b, i + 1))

BigMul(a, b) == BigTrim(BigMulFrom(a, b, 1))

Zeros(n) == [i \in 1..n |-> 0]

\* a * 2^k
BigShl(a, k) ==
    IF a = <<>> THEN <<>>
    ELSE Zeros(k \div 15) \o BigMulLimb(a, 2^(k % 15))

RECURSIVE BigDivLimbFrom(_, _, _, _)
BigDivLimbFrom(a, d, i, rem) ==
    IF i = 0 THEN <<>>
    ELSE LET cur == rem * LimbBase + a[i]
         IN  BigDivLimbFrom(a, d, i - 1, cur % d) \o <<cur \div d>>

\* floor(a / 2^k)
BigShr(a, k) ==
    LET limbs == k \div 15
        rest  == IF limbs >= Len(a) THEN <<>> ELSE SubSeq(a, limbs + 1, Len(a))
    IN  BigTrim(BigDivLimbFrom(rest, 2^(k % 15), Len(rest), 0))

RECURSIVE SmallBitLen(_)
SmallBitLen(n) == IF n = 0 THEN 0 ELSE 1 + SmallBitLen(n \div 2)

BigBitLen(a) ==
    IF a = <<>> THEN 0 ELSE 15 * (Len(a) - 1) + SmallBitLen(a[Len(a)])

BigBit(a, j) == (Limb(a, (j \div 15) + 1) \div 2^(j % 15)) % 2

BigOdd(a) == a # <<>> /\ a[1] % 2 = 1

RECURSIVE SmallTrailingZeros(_)
SmallTrailingZeros(n) == IF n % 2 = 1 THEN 0 ELSE 1 + SmallTrailingZeros(n \div 2)

RECURSIVE BigTrailingZerosFrom(_, _)
BigTrailingZerosFrom(a, i) ==
    IF a[i] = 0 THEN 15 + BigTrailingZerosFrom(a, i + 1)
    ELSE SmallTrailingZeros(a[i])

\* number of trailing zero bits of a # 0
BigTrailingZeros(a) == BigTrailingZerosFrom(a, 1)

\* one step of binary long division: r2 is the remainder with the next bit
\* of the dividend brought down
DivBitCmp(d, q, r2) ==
    IF BigCmp(r2, d) >= 0
    THEN <<BigTrim(BigAddFrom(q, q, 1, 1)), BigSub(r2, d)>>
    ELSE <<BigTrim(BigAddFrom(q, q, 1, 0)), r2>>

\* qr is <<quotient, remainder>> of the bits of n above bit j
DivBit(n, d, j, qr) ==
    IF j < 0 THEN qr
    ELSE DivBitCmp(d, qr[1], BigTrim(BigAddFrom(qr[2], qr[2], 1, BigBit(n, j))))

\* binary long division, most significant bit first, four bits at a time
RECURSIVE BigDivModFrom(_, _, _, _)
BigDivModFrom(n, d, j, qr) ==
    IF Len(qr) = 2 /\ j >= 0
    THEN BigDivModFrom(n, d, j - 4,
             DivBit(n, d, j - 3, DivBit(n, d, j - 2, DivBit(n, d, j - 1,
                 DivBit(n, d, j, qr)))))
    ELSE qr

\* the bits of n above bit j are less than d and begin as the remainder
BigDivModTop(n, d, j) ==
    IF j < 0 THEN <<<<>>, n>>
    ELSE BigDivModFrom(n, d, j, <<<<>>, BigShr(n, j + 1)>>)

\* <<floor(n / d), n mod d>> for d # 0
BigDivMod(n, d) == BigDivModTop(n, d, BigBitLen(n) - BigBitLen(d))

(***************************************************************************)
(* binary64 floats: [neg, m, e] is (-1)^neg * m * 2^e, kept canonical      *)
(* (m odd, or m = 0 with e = 0), so equal values are equal records.  The   *)
(* magnitudes the program computes stay far from the exponent limits, so   *)
(* overflow and subnormals do not arise.                                   *)
(***************************************************************************)
MantBits == 53

FZero == [neg |-> FALSE, m |-> <<>>, e |-> 0]

\* m * 2^e with the tz trailing zero bits of m moved into the exponent
FCanonBy(neg, m, e, tz) == [neg |-> neg, m |-> BigShr(m, tz), e |-> e + tz]

FCanon(neg, m, e) ==
    IF m = <<>> THEN FZero ELSE FCanonBy(neg, m, e, BigTrailingZeros(m))

\* q is m without its sh lowest bits, c compares the bits dropped with one
\* half: up when above, or at one half with q odd (ties to even)
FRoundUp(neg, q, e, c, sticky) ==
    FCanon(neg,
           IF c > 0 \/ (c = 0 /\ (sticky \/ BigOdd(q))) THEN BigAdd(q, <<1>>) ELSE q,
           e)

FRoundQ(neg, m, e, sticky, sh, q) ==
    FRoundUp(neg, q, e + sh,
             BigCmp(BigSub(m, BigShl(q, sh)), BigShl(<<1>>, sh - 1)), sticky)

FRoundLen(neg, m, e, sticky, bl) ==
    IF bl <= MantBits THEN FCanon(neg, m, e)
    ELSE FRoundQ(neg, m, e, sticky, bl - MantBits, BigShr(m, bl - MantBits))

\* the float nearest to (m + t) * 2^e, 0 <= t < 1, t # 0 iff sticky
\* (sticky only with more than MantBits + 1 bits in m)
FRound(neg, m, e, sticky) == FRoundLen(neg, m, e, sticky, BigBitLen(m))

FFromInt(n) == FCanon(n < 0, BigFromNat(IF n < 0 THEN -n ELSE n), 0)

FNeg(x) == IF x.m = <<>> THEN x ELSE [x EXCEPT !.neg = ~x.neg]

\* mx and my are the mantissas at the common exponent e, c compares them
FAddAligned(xneg, yneg, mx, my, e, c) ==
    FRound(IF c >= 0 THEN xneg ELSE yneg,
           IF xneg = yneg THEN BigAdd(mx, my)
           ELSE IF c >= 0 THEN BigSub(mx, my)
           ELSE BigSub(my, mx),
           e, FALSE)

FAddShifted(xneg, yneg, mx, my, e) ==
    FAddAligned(xneg, yneg, mx, my, e, BigCmp(mx, my))

FAddAt(x, y, e) ==
    FAddShifted(x.neg, y.neg, BigShl(x.m, x.e - e), BigShl(y.m, y.e - e), e)

FAdd(x, y) ==
    IF x.m = <<>> THEN y
    ELSE IF y.m = <<>> THEN x
    ELSE FAddAt(x, y, Min2(x.e, y.e))

FSub(x, y) == FAdd(x, FNeg(y))

FMul(x, y) ==
    IF x.m = <<>> \/ y.m = <<>> THEN FZero
    ELSE FRound(x.neg # y.neg, BigMul(x.m, y.m), x.e + y.e, FALSE)

FDivBy(x, y, k, qr) == FRound(x.neg # y.neg, qr[1], x.e - y.e - k, qr[2] # <<>>)

FDivShift(x, y, k) == FDivBy(x, y, k, BigDivMod(BigShl(x.m, k), y.m))

\* x / y for y # 0: a quotient of at least MantBits + 2 bits, then rounded
FDiv(x, y) ==
    IF x.m = <<>> THEN FZero
    ELSE FDivShift(x, y, MantBits + 3 + BigBitLen(y.m) - BigBitLen(x.m))

FSign(d) == IF d.m = <<>> THEN 0 ELSE IF d.neg THEN -1 ELSE 1

\* -1, 0, 1 as x < y, x = y, x > y
FCmp(x, y) == FSign(FSub(x, y))

\* int(x): truncation toward zero
FTrunc(x) ==
    IF x.neg THEN -BigToNat(BigShr(BigShl(x.m, Max2(x.e, 0)), Max2(-x.e, 0)))
    ELSE BigToNat(BigShr(BigShl(x.m, Max2(x.e, 0)), Max2(-x.e, 0)))

\* a decimal literal num/den, correctly rounded as the Python parser does
FLit(num, den) == FDiv(FFromInt(num), FFromInt(den))

(***************************************************************************)
(* Strings: sequences of one-character strings.                            *)
(***************************************************************************)
LowerLetters == <<"a", "b", "c", "d", "e", "f", "g", "h", "i", "j", "k", "l", "m",
                  "n", "o", "p", "q", "r", "s", "t", "u", "v", "w", "x", "y", "z">>

UpperLetters == <<"A", "B", "C", "D", "E", "F", "G", "H", "I", "J", "K", "L", "M",
                  "N", "O", "P", "Q", "R", "S", "T", "U", "V", "W", "X", "Y", "Z">>

Digits == <<"0", "1", "2", "3", "4", "5", "6", "7", "8", "9">>

\* the index of c in the sequence t, 0 when absent
IndexIn(t, c) ==
    IF \E i \in 1..Len(t) : t[i] = c
    THEN CHOOSE i \in 1..Len(t) : t[i] = c
    ELSE 0

\* str.upper() on one character
UpperChar(c) ==
    LET i == IndexIn(LowerLetters, c)
    IN  IF i > 0 THEN UpperLetters[i] ELSE c

\* str.lower() on one character
LowerChar(c) ==
    LET i == IndexIn(UpperLetters, c)
    IN  IF i > 0 THEN LowerLetters[i] ELSE c

Upper(s) == [i \in 1..Len(s) |-> UpperChar(s[i])]

Lower(s) == [i \in 1..Len(s) |-> LowerChar(s[i])]

\* the first index of s whose character is not in the set cs, Len(s) + 1 when none
FirstNotIn(s, cs) ==
    IF \E i \in 1..Len(s) : s[i] \notin cs
    THEN CHOOSE i \in 1..Len(s) : s[i] \notin cs /\ \A j \in 1..(i - 1) : s[j] \in cs
    ELSE Len(s) + 1

\* the last index of s whose character is not in the set cs, 0 when none
LastNotIn(s, cs) ==
    IF \E i \in 1..Len(s) : s[i] \notin cs
    THEN CHOOSE i \in 1..Len(s) :
             s[i] \notin cs /\ \A j \in (i + 1)..Len(s) : s[j] \in cs
    ELSE 0

Whitespace == {" ", "\t", "\n", "\r"}

\* str.strip()
Strip(s) == SubSeq(s, FirstNotIn(s, Whitespace), LastNotIn(s, Whitespace))

\* str.lstrip('#'): every leading '#' is removed
LStripHash(s) == SubSeq(s, FirstNotIn(s, {"#"}), Len(s))

\* s[i:j] of Python for 0 <= i <= j: clipped at the end of the string
Slice(s, i, j) == SubSeq(s, i + 1, Min2(j, Len(s)))

\* str.split('=', 1): one part without '=', else the text before and after
\* the first '='
SplitEq(s) ==
    LET i == IndexIn(s, "=")
    IN  IF i = 0 THEN <<s>>
        ELSE <<SubSeq(s, 1, i - 1), SubSeq(s, i + 1, Len(s))>>

\* the value of a digit in the given base, -1 when c is no digit of it
DigitVal(c, base) ==
    LET d == IndexIn(Digits, c)
        l == IndexIn(LowerLetters, LowerChar(c))
        v == IF d > 0 THEN d - 1 ELSE IF l > 0 THEN 9 + l ELSE -1
    IN  IF v < base THEN v ELSE -1

RECURSIVE DigitsVal(_, _)
DigitsVal(s, base) ==
    IF s = <<>> THEN 0
    ELSE DigitsVal(SubSeq(s, 1, Len(s) - 1), base) * base + DigitVal(s[Len(s)], base)

\* int() on the text t left by stripping the whitespace: one sign is
\* accepted, then digits, possibly grouped by single underscores;
\* ok = FALSE is ValueError.  (Base 16 is applied to slices of two
\* characters only, where a 0x prefix cannot be followed by a digit.)
PyIntStripped(t, base) ==
    LET signed == t # <<>> /\ t[1] \in {"+", "-"}
        body   == IF signed THEN Tail(t) ELSE t
        NotUnderscore(c) == c # "_"
        digs   == SelectSeq(body, NotUnderscore)
        ok     == /\ body # <<>>
                  /\ body[1] # "_" /\ body[Len(body)] # "_"
                  /\ \A i \in 1..(Len(body) - 1) : ~(body[i] = "_" /\ body[i + 1] = "_")
                  /\ \A i \in 1..Len(digs) : DigitVal(digs[i], base) >= 0
        mag    == IF ok THEN DigitsVal(digs, base) ELSE 0
    IN  [ok |-> ok, val |-> IF signed /\ t[1] = "-" THEN -mag ELSE mag]

\* int(s, base)
PyInt(s, base) == PyIntStripped(Strip(s), base)

KeyPalette == <<"p", "a", "l", "e", "t", "t", "e">>

KeyBackground == <<"b", "a", "c", "k", "g", "r", "o", "u", "n", "d">>

KeyForeground == <<"f", "o", "r", "e", "g", "r", "o", "u", "n", "d">>

KeyCursorColor == <<"c", "u", "r", "s", "o", "r", "-", "c", "o", "l", "o", "r">>

KeyCursorText == <<"c", "u", "r", "s", "o", "r", "-", "t", "e", "x", "t">>

KeySelectionBackground == <<"s", "e", "l", "e", "c", "t", "i", "o", "n", "-", "b", "a", "c", "k", "g", "r", "o", "u", "n", "d">>

KeySelectionForeground == <<"s", "e", "l", "e", "c", "t", "i", "o", "n", "-", "f", "o", "r", "e", "g", "r", "o", "u", "n", "d">>

(***************************************************************************)
(* GhosttyTheme and GhosttyParser.parse_theme_file                         *)
(***************************************************************************)
\* NewTheme with the cursor defaults exchanged
NewThemeCursorSwapped(name) ==
    [name                 |-> name,
     palette              |-> <<>>,
     background           |-> <<"#", "0", "0", "0", "0", "0", "0">>,
     foreground           |-> <<"#", "f", "f", "f", "f", "f", "f">>,
     cursor_color         |-> <<"#", "0", "0", "0", "0", "0", "0">>,
     cursor_text          |-> <<"#", "f", "f", "f", "f", "f", "f">>,
     selection_background |-> <<"#", "f", "f", "f", "f", "f", "f">>,
     selection_foreground |-> <<"#", "0", "0", "0", "0", "0", "0">>]

\* GhosttyTheme.__init__: the record a parse starts from
NewTheme(name) ==
    [name                 |-> name,
     palette              |-> <<>>,
     background           |-> <<"#", "0", "0", "0", "0", "0", "0">>,
     foreground           |-> <<"#", "f", "f", "f", "f", "f", "f">>,
     cursor_color         |-> <<"#", "f", "f", "f", "f", "f", "f">>,
     cursor_text          |-> <<"#", "0", "0", "0", "0", "0", "0">>,
     selection_background |-> <<"#", "f", "f", "f", "f", "f", "f">>,
     selection_foreground |-> <<"#", "0", "0", "0", "0", "0", "0">>]

\* dict.get(slot, default)
PaletteGet(palette, slot, default) ==
    IF slot \in DOMAIN palette THEN palette[slot] ELSE default

\* palette[num] = color
PaletteSet(palette, num, color) ==
    [i \in (DOMAIN palette) \cup {num} |-> IF i = num THEN color ELSE palette[i]]

\* ParsePaletteValue with an unreadable index stored as slot 0
ParsePaletteValueDefaultSlot(theme, value) ==
    LET parts == SplitEq(value)
    IN  IF Len(parts) = 2
        THEN [theme EXCEPT !.palette =
                 PaletteSet(@, PyInt(parts[1], 10).val, Strip(parts[2]))]
        ELSE theme

\* the palette branch of the loop body: value is the text after 'palette='
ParsePaletteValue(theme, value) ==
    LET parts == SplitEq(value)
    IN  IF Len(parts) = 2
        THEN LET num == PyInt(parts[1], 10)
             IN  IF num.ok
                 THEN [theme EXCEPT !.palette = PaletteSet(@, num.val, Strip(parts[2]))]
                 ELSE theme
        ELSE theme

\* the key dispatch of the loop body
AssignKey(theme, key, value) ==
    IF key = KeyPalette THEN ParsePaletteValue(theme, value)
    ELSE IF key = KeyBackground THEN [theme EXCEPT !.background = value]
    ELSE IF key = KeyForeground THEN [theme EXCEPT !.foreground = value]
    ELSE IF key = KeyCursorColor THEN [theme EXCEPT !.cursor_color = value]
    ELSE IF key = KeyCursorText THEN [theme EXCEPT !.cursor_text = value]
    ELSE IF key = KeySelectionBackground THEN [theme EXCEPT !.selection_background = value]
    ELSE IF key = KeySelectionForeground THEN [theme EXCEPT !.selection_foreground = value]
    ELSE theme

\* ParseLine with the value taken unstripped
ParseLineValueNotStripped(theme, raw) ==
    LET line == Strip(raw)
    IN  IF line = <<>> \/ line[1] = "#" THEN theme
        ELSE IF IndexIn(line, "=") > 0
        THEN LET kv == SplitEq(line)
             IN  AssignKey(theme, Strip(kv[1]), kv[2])
        ELSE theme

\* one iteration of the loop over the lines of the file
ParseLine(theme, raw) ==
    LET line == Strip(raw)
    IN  IF line = <<>> \/ line[1] = "#" THEN theme
        ELSE IF IndexIn(line, "=") > 0
        THEN LET kv == SplitEq(line)
             IN  AssignKey(theme, Strip(kv[1]), Strip(kv[2]))
        ELSE theme

\* parse_theme_file on a readable file: the loop over all its lines
RECURSIVE ParseLines(_, _)
ParseLines(theme, lines) ==
    IF lines = <<>> THEN theme
    ELSE ParseLines(ParseLine(theme, Head(lines)), Tail(lines))

(***************************************************************************)
(* Reading a colour: hex_color.lstrip('#') and int(hex_color[i:i+2], 16)   *)
(* for i in (0, 2, 4).  ok = FALSE is the ValueError of int().             *)
(***************************************************************************)
ParseHex(hex_color) ==
    LET h  == LStripHash(hex_color)
        ch == [i \in {0, 2, 4} |-> PyInt(Slice(h, i, i + 2), 16)]
    IN  [ok |-> \A i \in {0, 2, 4} : ch[i].ok,
         r |-> ch[0].val, g |-> ch[2].val, b |-> ch[4].val]

\* _get_luminance raises exactly when the colour cannot be read
LuminanceRaises(hex_color) == ~ParseHex(hex_color).ok

\* blend_colors raises exactly when one of its colours cannot be read
BlendRaises(color1, color2) == \E c \in {color1, color2} : ~ParseHex(c).ok

\* rgb_to_hsv divides by the largest channel when the channels differ
HsvDividesByZero(c) ==
    Max2(c.r, Max2(c.g, c.b)) = 0 /\ Min2(c.r, Min2(c.g, c.b)) < 0

\* adjust_brightness raises when the colour cannot be read (ValueError), and
\* in rgb_to_hsv at s = rangec / maxc when the largest channel is 0 and
\* another one is negative (ZeroDivisionError; a channel is negative only
\* when its two characters are a '-' and a digit, which no colour of
\* SampleLines has)
AdjustRaises(hex_color) ==
    \E c \in {ParseHex(hex_color)} : ~c.ok \/ HsvDividesByZero(c)

(***************************************************************************)
(* GhosttyTheme.is_dark: _get_luminance(background) < 0.5.  The luminance  *)
(* is enclosed between two rationals computed in integers: a value x is    *)
(* carried as a lower or an upper bound in units of 1/LumScale, every      *)
(* operation rounding down for the lower and up for the upper bound.  The  *)
(* float the code computes differs from the real value by rounding errors  *)
(* far below one unit.                                                     *)
(***************************************************************************)
LumScale == 2^15

\* a / b rounded down, or up
DivR(a, b, up) == IF up THEN -((-a) \div b) ELSE a \div b

\* the product of two bounds
MulR(a, b, up) == DivR(a * b, LumScale, up)

\* c <= 0.03928 for c = n / 255.0
IsLinearChannel(n) == n * 100000 <= 3928 * 255

\* c / 12.92 for c = n / 255.0
LinearPart(n, up) == DivR(n * 100 * LumScale, 255 * 1292, up)

\* (c + 0.055) / 1.055 for c = n / 255.0, which is (40n + 561) / 10761
GammaBase(n, up) == DivR((40 * n + 561) * LumScale, 10761, up)

\* a bound of y^5
Pow5(y, up) == MulR(MulR(MulR(MulR(y, y, up), y, up), y, up), y, up)

\* the fifth root of a by bisection: as a lower bound the largest y in
\* lo..(hi - 1) whose fifth power is surely at most a, as an upper bound the
\* smallest y in (lo + 1)..hi whose fifth power is surely at least a
RECURSIVE FifthRoot(_, _, _, _)
FifthRoot(a, lo, hi, up) ==
    IF hi - lo <= 1 THEN (IF up THEN hi ELSE lo)
    ELSE IF up
    THEN (IF Pow5((lo + hi) \div 2, FALSE) >= a
          THEN FifthRoot(a, lo, (lo + hi) \div 2, up)
          ELSE FifthRoot(a, (lo + hi) \div 2, hi, up))
    ELSE (IF Pow5((lo + hi) \div 2, TRUE) <= a
          THEN FifthRoot(a, (lo + hi) \div 2, hi, up)
          ELSE FifthRoot(a, lo, (lo + hi) \div 2, up))

\* sq is a bound of x^2 for 0 <= x <= 1; x ** 2.4 = x^2 * (x^2)^(1/5)
Pow24OfSquare(sq, up) ==
    MulR(sq, FifthRoot(sq, IF up THEN -1 ELSE 0, IF up THEN LumScale ELSE LumScale + 1, up), up)

\* x ** 2.4
Pow24(x, up) == Pow24OfSquare(MulR(x, x, up), up)

\* to_linear(c) for c = n / 255.0
ToLinear(n, up) ==
    IF IsLinearChannel(n) THEN LinearPart(n, up) ELSE Pow24(GammaBase(n, up), up)

\* 0.2126 * r_lin + 0.7152 * g_lin + 0.0722 * b_lin, in units of
\* 1 / (10000 * LumScale)
LuminanceBound(c, up) ==
    2126 * ToLinear(c.r, up) + 7152 * ToLinear(c.g, up) + 722 * ToLinear(c.b, up)

\* luminance < 0.5: decided when the enclosure, widened by one unit for the
\* rounding of the floats, lies on one side of 0.5; otherwise the outcome is
\* the one the platform's arithmetic gives, tie
IsDarkParsed(c, tie) ==
    IF LuminanceBound(c, TRUE) + 1 < 5000 * LumScale THEN TRUE
    ELSE IF LuminanceBound(c, FALSE) - 1 >= 5000 * LumScale THEN FALSE
    ELSE tie

\* is_dark with the comparison inverted
IsDarkInverted(hex_color, tie) == ~IsDarkParsed(ParseHex(hex_color), tie)

\* is_dark of a theme whose background is hex_color
IsDark(hex_color, tie) == IsDarkParsed(ParseHex(hex_color), tie)

(***************************************************************************)
(* ColorDerivator.  The colorsys functions are the standard library's:     *)
(* rgb_to_hsv and hsv_to_rgb, computed in floats step by step.             *)
(***************************************************************************)
HexDigitsLower ==
    <<"0", "1", "2", "3", "4", "5", "6", "7", "8", "9", "a", "b", "c", "d", "e", "f">>

RECURSIVE HexOfNat(_)
HexOfNat(n) ==
    IF n < 16 THEN <<HexDigitsLower[n + 1]>>
    ELSE HexOfNat(n \div 16) \o <<HexDigitsLower[(n % 16) + 1]>>

ZeroChars(n) == [i \in 1..n |-> "0"]

\* f"{n:02x}"
FormatHex02(n) ==
    IF n < 0
    THEN <<"-">> \o ZeroChars(Max2(0, 1 - Len(HexOfNat(-n)))) \o HexOfNat(-n)
    ELSE ZeroChars(Max2(0, 2 - Len(HexOfNat(n)))) \o HexOfNat(n)

\* f"#{r:02x}{g:02x}{b:02x}"
FormatColour(r, g, b) == <<"#">> \o FormatHex02(r) \o FormatHex02(g) \o FormatHex02(b)

F255 == FFromInt(255)

\* max(a, b, c) and min(a, b, c) of floats
FMax3(a, b, c) ==
    IF FCmp(b, a) > 0
    THEN (IF FCmp(c, b) > 0 THEN c ELSE b)
    ELSE (IF FCmp(c, a) > 0 THEN c ELSE a)

FMin3(a, b, c) ==
    IF FCmp(b, a) < 0
    THEN (IF FCmp(c, b) < 0 THEN c ELSE b)
    ELSE (IF FCmp(c, a) < 0 THEN c ELSE a)

\* x - floor(|x|) with the sign of x: fmod(x, 1.0), which is exact
FFmod1(x) ==
    IF x.e >= 0 THEN FZero
    ELSE FCanon(x.neg, BigSub(x.m, BigShl(BigShr(x.m, -x.e), -x.e)), x.e)

\* mod is fmod(x, 1.0); a negative one is brought into [0, 1] by adding 1.0
PyMod1Of(mod) == IF mod.neg THEN FAdd(mod, FFromInt(1)) ELSE mod

\* x % 1.0
PyMod1(x) == PyMod1Of(FFmod1(x))

\* the hue before scaling: bc-gc, 2.0+rc-bc or 4.0+gc-rc
HueOf(r, g, maxc, rc, gc, bc) ==
    IF r = maxc THEN FSub(bc, gc)
    ELSE IF g = maxc THEN FSub(FAdd(FFromInt(2), rc), bc)
    ELSE FSub(FAdd(FFromInt(4), gc), rc)

RgbToHsvRange(r, g, b, maxc, rangec) ==
    <<PyMod1(FDiv(HueOf(r, g, maxc,
                        FDiv(FSub(maxc, r), rangec),
                        FDiv(FSub(maxc, g), rangec),
                        FDiv(FSub(maxc, b), rangec)),
                  FFromInt(6))),
      FDiv(rangec, maxc),
      maxc>>

RgbToHsvMaxMin(r, g, b, maxc, minc) ==
    IF minc = maxc THEN <<FZero, FZero, maxc>>
    ELSE RgbToHsvRange(r, g, b, maxc, FSub(maxc, minc))

\* colorsys.rgb_to_hsv: <<h, s, v>>; maxc # 0 when the channels differ
RgbToHsv(r, g, b) == RgbToHsvMaxMin(r, g, b, FMax3(r, g, b), FMin3(r, g, b))

HsvPick(i, v, p, q, t) ==
    IF i = 0 THEN <<v, t, p>>
    ELSE IF i = 1 THEN <<q, v, p>>
    ELSE IF i = 2 THEN <<p, v, t>>
    ELSE IF i = 3 THEN <<p, q, v>>
    ELSE IF i = 4 THEN <<t, p, v>>
    ELSE <<v, p, q>>

\* i = int(h*6.0) and f = h*6.0 - i
HsvSector(s, v, i, f) ==
    HsvPick(i % 6, v,
            FMul(v, FSub(FFromInt(1), s)),
            FMul(v, FSub(FFromInt(1), FMul(s, f))),
            FMul(v, FSub(FFromInt(1), FMul(s, FSub(FFromInt(1), f)))))

HsvScaled(s, v, h6) == HsvSector(s, v, FTrunc(h6), FSub(h6, FFromInt(FTrunc(h6))))

\* colorsys.hsv_to_rgb: <<r, g, b>>
HsvToRgb(h, s, v) ==
    IF s = FZero THEN <<v, v, v>> ELSE HsvScaled(s, v, FMul(h, FFromInt(6)))

\* Clamp01 without the upper bound: max(0, x)
ClampAtZero(x) == IF FCmp(x, FZero) > 0 THEN x ELSE FZero

\* max(0, min(1, x))
Clamp01(x) ==
    IF FCmp(x, FFromInt(1)) < 0
    THEN (IF FCmp(x, FZero) > 0 THEN x ELSE FZero)
    ELSE FFromInt(1)

\* the channels of the result: int(r*255), int(g*255), int(b*255)
ColourOfRgb(rgb) ==
    FormatColour(FTrunc(FMul(rgb[1], F255)),
                 FTrunc(FMul(rgb[2], F255)),
                 FTrunc(FMul(rgb[3], F255)))

AdjustBrightnessHsv(hsv, factor) ==
    ColourOfRgb(HsvToRgb(hsv[1], hsv[2], Clamp01(FAdd(hsv[3], factor))))

AdjustBrightnessParsed(c, factor) ==
    IF ~c.ok THEN <<"ValueError">>
    ELSE IF HsvDividesByZero(c) THEN <<"ZeroDivisionError">>
    ELSE AdjustBrightnessHsv(RgbToHsv(FDiv(FFromInt(c.r), F255),
                                      FDiv(FFromInt(c.g), F255),
                                      FDiv(FFromInt(c.b), F255)),
                             factor)

\* adjust_brightness(hex_color, factor): the colour returned, or the
\* exception raised
AdjustBrightness(hex_color, factor) == AdjustBrightnessParsed(ParseHex(hex_color), factor)

\* BlendChannel with the weights exchanged: int(a * ratio + b * (1 - ratio))
BlendChannelSwapped(a, b, ratio) ==
    FTrunc(FAdd(FMul(FFromInt(a), ratio), FMul(FFromInt(b), FSub(FFromInt(1), ratio))))

\* int(a * (1 - ratio) + b * ratio) for one channel
BlendChannel(a, b, ratio) ==
    FTrunc(FAdd(FMul(FFromInt(a), FSub(FFromInt(1), ratio)), FMul(FFromInt(b), ratio)))

BlendParsed(c1, c2, ratio) ==
    IF ~c1.ok \/ ~c2.ok THEN <<"ValueError">>
    ELSE FormatColour(BlendChannel(c1.r, c2.r, ratio),
                      BlendChannel(c1.g, c2.g, ratio),
                      BlendChannel(c1.b, c2.b, ratio))

\* blend_colors(color1, color2, ratio): the colour returned, or the
\* exception raised
BlendColors(color1, color2, ratio) == BlendParsed(ParseHex(color1), ParseHex(color2), ratio)

(***************************************************************************)
(* PhpStormThemeGenerator.  A document is the set of its entries that      *)
(* carry a theme colour unchanged: [role, slot, value], slot being the     *)
(* palette slot the value is read from and 0 for a colour field.  The      *)
(* entries computed by adjust_brightness and blend_colors are represented  *)
(* by the exception their computation can raise.                           *)
(***************************************************************************)
Entry(role, slot, value) == [role |-> role, slot |-> slot, value |-> value]

\* the exceptions of generate_theme_json, _derive_ui_colors included: the
\* background is classified by is_dark; background, foreground, selection
\* background and palette slots 4, 1, 3 go through adjust_brightness; slots
\* 3, 2, 4, 1 are blended with the background
ThemeJsonRaises(theme) ==
    LET p       == theme.palette
        accent  == PaletteGet(p, 4, <<"#", "0", "0", "7", "8", "d", "4">>)
        error   == PaletteGet(p, 1, <<"#", "f", "f", "0", "0", "0", "0">>)
        warning == PaletteGet(p, 3, <<"#", "f", "f", "a", "a", "0", "0">>)
        success == PaletteGet(p, 2, <<"#", "0", "0", "a", "a", "0", "0">>)
    IN  \/ LuminanceRaises(theme.background)
        \/ \E c \in {theme.background, theme.foreground, theme.selection_background,
                     accent, error, warning} : AdjustRaises(c)
        \/ \E c \in {warning, success, accent, error} : BlendRaises(theme.background, c)

\* generate_theme_json: the colours block, the ui entries that copy a
\* palette colour, and the icons ColorPalette block
ThemeJsonEntries(theme) ==
    LET p       == theme.palette
        accent  == PaletteGet(p, 4, <<"#", "0", "0", "7", "8", "d", "4">>)
        error   == PaletteGet(p, 1, <<"#", "f", "f", "0", "0", "0", "0">>)
        warning == PaletteGet(p, 3, <<"#", "f", "f", "a", "a", "0", "0">>)
        success == PaletteGet(p, 2, <<"#", "0", "0", "a", "a", "0", "0">>)
    IN  { Entry("background.default", 0, theme.background),
          Entry("colors.primaryBackground", 0, theme.background),
          Entry("colors.primaryForeground", 0, theme.foreground),
          Entry("colors.selectionBackground", 0, theme.selection_background),
          Entry("colors.selectionForeground", 0, theme.selection_foreground),
          Entry("colors.accentColor", 4, accent),
          Entry("ui.*.acceleratorForeground", 4, accent),
          Entry("ui.*.errorForeground", 1, error),
          Entry("ui.*.focusColor", 4, accent),
          Entry("ui.Component.errorFocusColor", 1, error),
          Entry("ui.Component.warningFocusColor", 3, warning),
          Entry("ui.ValidationTooltip.errorBackground", 1, error),
          Entry("ui.ValidationTooltip.warningBackground", 3, warning),
          Entry("ui.Icons.redForeground", 1, error),
          Entry("ui.Icons.greenForeground", 2, success),
          Entry("ui.Icons.blueForeground", 4, accent),
          Entry("ui.Icons.yellowForeground", 3, warning),
          Entry("icons.Actions.Blue", 4, accent),
          Entry("icons.Actions.Green", 2, PaletteGet(p, 2, <<"#", "0", "0", "a", "a", "0", "0">>)),
          Entry("icons.Actions.Red", 1, PaletteGet(p, 1, <<"#", "f", "f", "0", "0", "0", "0">>)),
          Entry("icons.Actions.Yellow", 3, PaletteGet(p, 3, <<"#", "f", "f", "a", "a", "0", "0">>)),
          Entry("icons.Objects.Blue", 4, accent),
          Entry("icons.Objects.Green", 2, PaletteGet(p, 2, <<"#", "0", "0", "a", "a", "0", "0">>)),
          Entry("icons.Objects.Pink", 5, PaletteGet(p, 5, <<"#", "f", "f", "0", "0", "f", "f">>)),
          Entry("icons.Objects.Purple", 5, PaletteGet(p, 5, <<"#", "f", "f", "0", "0", "f", "f">>)),
          Entry("icons.Objects.Red", 1, PaletteGet(p, 1, <<"#", "f", "f", "0", "0", "0", "0">>)),
          Entry("icons.Objects.Yellow", 3, PaletteGet(p, 3, <<"#", "f", "f", "a", "a", "0", "0">>)) }

\* _add_color_option: the value in upper case
ColorOption(name, value) == Entry(name, 0, Upper(value))

\* SyntaxOption without the lstrip('#')
SyntaxOptionKeepsHash(name, slot, color) == Entry(name, slot, Upper(color))

\* the loop body of _add_syntax_colors: color.upper().lstrip('#')
SyntaxOption(name, slot, color) == Entry(name, slot, LStripHash(Upper(color)))

\* SyntaxColors with the slots of keyword and string exchanged
SyntaxColorsSwapped(theme) ==
    LET p == theme.palette
    IN  { SyntaxOption("DEFAULT_KEYWORD", 2, PaletteGet(p, 2, <<"#", "0", "0", "f", "f", "0", "0">>)),
          SyntaxOption("DEFAULT_STRING", 5, PaletteGet(p, 5, <<"#", "f", "f", "0", "0", "f", "f">>)),
          SyntaxOption("DEFAULT_NUMBER", 1, PaletteGet(p, 1, <<"#", "f", "f", "0", "0", "0", "0">>)),
          SyntaxOption("DEFAULT_COMMENT", 8, PaletteGet(p, 8, <<"#", "5", "5", "5", "5", "5", "5">>)),
          SyntaxOption("DEFAULT_IDENTIFIER", 0, theme.foreground),
          SyntaxOption("DEFAULT_FUNCTION_DECLARATION", 4, PaletteGet(p, 4, <<"#", "0", "0", "0", "0", "f", "f">>)),
          SyntaxOption("DEFAULT_CLASS_NAME", 3, PaletteGet(p, 3, <<"#", "f", "f", "f", "f", "0", "0">>)),
          SyntaxOption("DEFAULT_CONSTANT", 6, PaletteGet(p, 6, <<"#", "0", "0", "f", "f", "f", "f">>)) }

\* _add_syntax_colors: the attributes section
SyntaxColors(theme) ==
    LET p == theme.palette
    IN  { SyntaxOption("DEFAULT_KEYWORD", 5, PaletteGet(p, 5, <<"#", "f", "f", "0", "0", "f", "f">>)),
          SyntaxOption("DEFAULT_STRING", 2, PaletteGet(p, 2, <<"#", "0", "0", "f", "f", "0", "0">>)),
          SyntaxOption("DEFAULT_NUMBER", 1, PaletteGet(p, 1, <<"#", "f", "f", "0", "0", "0", "0">>)),
          SyntaxOption("DEFAULT_COMMENT", 8, PaletteGet(p, 8, <<"#", "5", "5", "5", "5", "5", "5">>)),
          SyntaxOption("DEFAULT_IDENTIFIER", 0, theme.foreground),
          SyntaxOption("DEFAULT_FUNCTION_DECLARATION", 4, PaletteGet(p, 4, <<"#", "0", "0", "0", "0", "f", "f">>)),
          SyntaxOption("DEFAULT_CLASS_NAME", 3, PaletteGet(p, 3, <<"#", "f", "f", "f", "f", "0", "0">>)),
          SyntaxOption("DEFAULT_CONSTANT", 6, PaletteGet(p, 6, <<"#", "0", "0", "f", "f", "f", "f">>)) }

\* the exceptions of generate_editor_scheme_xml: is_dark for parent_scheme
\* and adjust_brightness(foreground, -0.3) for LINE_NUMBERS_COLOR
EditorSchemeRaises(theme) ==
    LuminanceRaises(theme.background) \/ AdjustRaises(theme.foreground)

\* generate_editor_scheme_xml: the colors section and the attributes section
EditorSchemeEntries(theme) ==
    { ColorOption("BACKGROUND", theme.background),
      ColorOption("FOREGROUND", theme.foreground),
      ColorOption("CARET_COLOR", theme.cursor_color),
      ColorOption("SELECTION_BACKGROUND", theme.selection_background),
      ColorOption("SELECTION_FOREGROUND", theme.selection_foreground),
      ColorOption("GUTTER_BACKGROUND", theme.background) }
    \cup SyntaxColors(theme)

\* the exceptions of generate_plugin_xml: is_dark for the Dark/Light line
PluginXmlRaises(theme) == LuminanceRaises(theme.background)

\* generate_plugin_xml: the descriptor names the theme and carries the
\* identifier drawn by the constructor; it emits no theme colour
PluginXmlEntries(theme, theme_id) ==
    { Entry("themeProvider.id", 0, theme_id),
      Entry("themeProvider.path", 0, theme.name),
      Entry("bundledColorScheme.path", 0, theme.name) }

\* what generate_theme_json makes of is_dark: the "dark" flag, and the branch
\* of _derive_ui_colors, represented by the factor it passes to
\* adjust_brightness(bg, ...) for the panel background
ThemeJsonDark(theme, tie) ==
    { Entry("dark", 0, IF IsDark(theme.background, tie) THEN <<"t", "r", "u", "e">>
            ELSE <<"f", "a", "l", "s", "e">>),
      Entry("ui.Panel.background=adjust_brightness(bg)", 0,
            IF IsDark(theme.background, tie) THEN <<"0", ".", "1">>
            ELSE <<"-", "0", ".", "0", "5">>) }

\* the parent_scheme attribute of generate_editor_scheme_xml
EditorSchemeDark(theme, tie) ==
    { Entry("parent_scheme", 0,
            IF IsDark(theme.background, tie) THEN <<"D", "a", "r", "c", "u", "l", "a">>
            ELSE <<"D", "e", "f", "a", "u", "l", "t">>) }

\* a descriptor whose Dark/Light line disagrees with is_dark
PluginXmlDarkInverted(theme, tie) ==
    { Entry("description.theme", 0,
            IF IsDark(theme.background, tie) THEN <<"L", "i", "g", "h", "t">>
            ELSE <<"D", "a", "r", "k">>) }

\* the Dark/Light line of the description in generate_plugin_xml
PluginXmlDark(theme, tie) ==
    { Entry("description.theme", 0,
            IF IsDark(theme.background, tie) THEN <<"D", "a", "r", "k">>
            ELSE <<"L", "i", "g", "h", "t">>) }

(***************************************************************************)
(* The editor scheme as text: toprettyxml gives the XML declaration, the   *)
(* root tag with the theme name, the two sections and the closing tag, one *)
(* per line.  The root tag is cut after the name and the option lines of   *)
(* the sections are left out: they are the entries above.                  *)
(***************************************************************************)
XmlDeclaration == <<"<", "?", "x", "m", "l", " ", "v", "e", "r", "s", "i", "o", "n", "=", "\"", "1", ".", "0", "\"", " ", "?", ">">>

SchemeTag == <<"<", "s", "c", "h", "e", "m", "e">>

SchemeXmlLines(theme) ==
    << XmlDeclaration,
       SchemeTag \o <<" ", "n", "a", "m", "e", "=", "\"">> \o theme.name \o <<"\"">>,
       <<" ", " ", "<", "c", "o", "l", "o", "r", "s", ">">>,
       <<" ", " ", "<", "a", "t", "t", "r", "i", "b", "u", "t", "e", "s", ">">>,
       <<"<", "/", "s", "c", "h", "e", "m", "e", ">">> >>

\* pat occurs in line
Contains(line, pat) ==
    \E i \in 1..(Len(line) - Len(pat) + 1) : SubSeq(line, i, i + Len(pat) - 1) = pat

\* the index of the first line holding '<scheme', 0 when there is none
SchemeStart(lines) ==
    IF \E i \in 1..Len(lines) : Contains(lines[i], SchemeTag)
    THEN CHOOSE i \in 1..Len(lines) :
            /\ Contains(lines[i], SchemeTag)
            /\ \A j \in 1..(i - 1) : ~Contains(lines[j], SchemeTag)
    ELSE 0

(***************************************************************************)
(* The inputs: theme files are sequences of at most MaxLines lines drawn   *)
(* from SampleLines (blank lines, comments, lines without '=', unknown     *)
(* keys, the six colour keys with well-formed and malformed values, and    *)
(* palette lines with and without a readable index).                       *)
(***************************************************************************)
MaxLines == 2

SampleLines ==
    { <<>>,
      <<"#", " ", "t", "h", "e", "m", "e">>,
      <<" ", " ", "#", "b", "a", "c", "k", "g", "r", "o", "u", "n", "d", "=", "#", "3", "3", "3", "3", "3", "3">>,
      <<"b", "a", "c", "k", "g", "r", "o", "u", "n", "d">>,
      <<"f", "o", "n", "t", "-", "s", "i", "z", "e", "=", "1", "2">>,
      <<"b", "a", "c", "k", "g", "r", "o", "u", "n", "d", "=", "#", "1", "e", "1", "e", "1", "e">>,
      <<"b", "a", "c", "k", "g", "r", "o", "u", "n", "d", " ", "=", " ", "#", "F", "F", "F", "F", "F", "F", " ">>,
      <<"b", "a", "c", "k", "g", "r", "o", "u", "n", "d", "=", "z", "z", "z">>,
      <<"b", "a", "c", "k", "g", "r", "o", "u", "n", "d", "=">>,
      <<"f", "o", "r", "e", "g", "r", "o", "u", "n", "d", "=", "#", "d", "4", "d", "4", "d", "4">>,
      <<"c", "u", "r", "s", "o", "r", "-", "c", "o", "l", "o", "r", "=", "#", "a", "b", "c", "d", "e", "f">>,
      <<"c", "u", "r", "s", "o", "r", "-", "t", "e", "x", "t", "=", "#", "1", "2", "=", "4", "5", "6">>,
      <<"s", "e", "l", "e", "c", "t", "i", "o", "n", "-", "b", "a", "c", "k", "g", "r", "o", "u", "n", "d", "=", "#", "2", "6", "4", "f", "7", "8">>,
      <<"s", "e", "l", "e", "c", "t", "i", "o", "n", "-", "f", "o", "r", "e", "g", "r", "o", "u", "n", "d", "=", "#", "f", "f", "f", "f", "f", "f">>,
      <<"p", "a", "l", "e", "t", "t", "e", "=", "4", "=", "#", "1", "2", "3", "4", "5", "6">>,
      <<"p", "a", "l", "e", "t", "t", "e", "=", "n", "o", "t", "a", "n", "u", "m", "b", "e", "r">>,
      <<"p", "a", "l", "e", "t", "t", "e", "=", "x", "=", "#", "1", "2", "3", "4", "5", "6">>,
      <<"p", "a", "l", "e", "t", "t", "e", " ", "=", " ", "2", " ", "=", "#", "0", "f", "0">>,
      <<"p", "a", "l", "e", "t", "t", "e", "=", "5", "=", "z", "z", "z">> }

ThemeFileName == <<"n", "o", "r", "d">>

ThemeFiles == UNION { [1..n -> SampleLines] : n \in 0..MaxLines }

\* a file of the input directory: unreadable files make open() raise
InputFiles ==
    { [name |-> ThemeFileName, readable |-> TRUE, lines |-> ls] : ls \in ThemeFiles }
    \cup { [name |-> ThemeFileName, readable |-> FALSE, lines |-> <<>>] }

\* the values uuid.uuid4() may return
UuidValues == { <<"u", "u", "i", "d", "-", "a">>, <<"u", "u", "i", "d", "-", "b">> }

NoTheme == <<>>

NoDocs == [json |-> {}, scheme |-> {}, plugin |-> {}]

(***************************************************************************)
(* The inputs of main: the command line and what the input path names.     *)
(* A directory holds at most MaxEntries entries: sub-directories, theme    *)
(* files that convert, theme files whose content makes the conversion      *)
(* raise, and files that cannot be opened.                                 *)
(***************************************************************************)
MaxEntries == 2

FileNames == <<<<"n", "o", "r", "d">>, <<"d", "r", "a", "c", "u", "l", "a">>, <<"g", "r", "u", "v", "b", "o", "x">>, <<"s", "o", "l", "a", "r", "i", "z", "e", "d">>>>

EntryKinds == {"subdir", "wellformed", "malformed", "unreadable"}

WellFormedLines == <<<<"b", "a", "c", "k", "g", "r", "o", "u", "n", "d", "=", "#", "1", "e", "1", "e", "1", "e">>, <<"f", "o", "r", "e", "g", "r", "o", "u", "n", "d", "=", "#", "d", "4", "d", "4", "d", "4">>>>

MalformedLines == <<<<"b", "a", "c", "k", "g", "r", "o", "u", "n", "d", "=", "z", "z", "z">>>>

\* the directory entry or input file of a kind
EntryOf(kind, name) ==
    [name     |-> name,
     isFile   |-> kind # "subdir",
     readable |-> kind \in {"wellformed", "malformed"},
     lines    |-> IF kind = "wellformed" THEN WellFormedLines
                  ELSE IF kind = "malformed" THEN MalformedLines
                  ELSE <<>>]

Directories ==
    UNION { { [i \in 1..n |-> EntryOf(kinds[i], FileNames[i])] :
                kinds \in [1..n -> EntryKinds] } : n \in 0..MaxEntries }

InputPaths ==
    { [kind |-> "missing", entries |-> <<>>] }
    \cup { [kind |-> "file", entries |-> <<EntryOf(k, FileNames[1])>>] :
              k \in EntryKinds \ {"subdir"} }
    \cup { [kind |-> "dir", entries |-> d] : d \in Directories }

ArgsSet == [batch : BOOLEAN, dir : BOOLEAN, icls : BOOLEAN]

NoArgs == [batch |-> FALSE, dir |-> FALSE, icls |-> FALSE]

NoInput == [kind |-> "none", entries |-> <<>>]

NoOutput == [created |-> FALSE, files |-> {}, icls |-> {}]

(***************************************************************************)
(* The inputs of the colour functions.                                     *)
(***************************************************************************)
SampleColours ==
    { <<"#", "0", "0", "0", "0", "0", "0">>,
      <<"#", "f", "f", "f", "f", "f", "f">>,
      <<"#", "A", "B", "C", "D", "E", "F">>,
      <<"#", "0", "0", "0", "5", "0", "f">>,
      <<"#", "0", "3", "0", "6", "0", "9">>,
      <<"#", "1", "e", "1", "e", "1", "e">> }

\* ratios and factors as decimal literals <<numerator, denominator>>
SampleRatios == { <<0, 1>>, <<1, 1>>, <<5, 10>>, <<3, 10>> }

SampleFactors == { <<0, 1>>, <<1, 10>>, <<-3, 10>>, <<1, 1>>, <<2, 1>>, <<-1, 1>>, <<-2, 1>> }

BlendCalls ==
    { [op |-> "blend_colors", color1 |-> a, color2 |-> b, num |-> r] :
        a \in SampleColours, b \in SampleColours, r \in SampleRatios }

AdjustCalls ==
    { [op |-> "adjust_brightness", color1 |-> a, color2 |-> a, num |-> f] :
        a \in SampleColours, f \in SampleFactors }

\* backgrounds for is_dark: greys on both sides of the threshold (187 and
\* 188 of 255), and two colours whose luminance is within 5e-8 of 0.5
LuminanceColours ==
    SampleColours
    \cup { <<"#", "b", "b", "b", "b", "b", "b">>,
           <<"#", "b", "c", "b", "c", "b", "c">>,
           <<"#", "5", "a", "d", "3", "7", "3">>,
           <<"#", "5", "a", "c", "b", "d", "b">>,
           <<"z", "z", "z">> }

IsDarkCalls ==
    { [op |-> "is_dark", color1 |-> a, color2 |-> a, num |-> <<0, 1>>] :
        a \in LuminanceColours }

NoCall == [op |-> "none", color1 |-> <<>>, color2 |-> <<>>, num |-> <<0, 1>>]

(***************************************************************************)
(* State.  convert_theme: file is the input, pos the number of lines the   *)
(* parser has consumed, theme the GhosttyTheme, themeId the generator's    *)
(* identifier, docs the documents generated so far, written what exists    *)
(* in the theme's output, pc the position ("raised": an exception left     *)
(* the function).  main: args and input are the command line and the       *)
(* input path, mainPc the position, idx the loop index, converted the      *)
(* counter, attempted and failed the entries whose conversion was started  *)
(* and reported as failed, summary the converted/total printed, output     *)
(* the output path, outcome how the process ended.  Colour functions:      *)
(* call is the call made, result what it returned, tieDark what the        *)
(* platform's floats make of luminance < 0.5 for a background whose        *)
(* luminance the enclosure cannot tell from 0.5.                           *)
(***************************************************************************)
VARIABLES file, pos, theme, themeId, docs, written, pc,
          args, input, mainPc, idx, converted, attempted, failed, summary,
          output, outcome,
          call, result, tieDark

convertVars == <<file, pos, theme, themeId, docs, written, pc>>

mainVars == <<args, input, mainPc, idx, converted, attempted, failed, summary,
              output, outcome>>

colourVars == <<call, result, tieDark>>

vars == <<convertVars, mainVars, colourVars>>

ConvertIdle ==
    /\ file = [name |-> <<>>, readable |-> FALSE, lines |-> <<>>]
    /\ pos = 0
    /\ theme = NoTheme
    /\ themeId = <<>>
    /\ docs = NoDocs
    /\ written = {}
    /\ pc = "idle"

MainIdle ==
    /\ args = NoArgs
    /\ input = NoInput
    /\ mainPc = "idle"
    /\ idx = 0
    /\ converted = 0
    /\ attempted = <<>>
    /\ failed = <<>>
    /\ summary = <<>>
    /\ output = NoOutput
    /\ outcome = "idle"

ColourIdle == call = NoCall /\ result = <<>> /\ tieDark \in BOOLEAN

(***************************************************************************)
(* convert_theme(input_file, output_dir, create_dir), step by step         *)
(***************************************************************************)
Init ==
    /\ file \in InputFiles
    /\ pos = 0
    /\ theme = NoTheme
    /\ themeId = <<>>
    /\ docs = NoDocs
    /\ written = {}
    /\ pc = "start"
    /\ MainIdle
    /\ ColourIdle

\* parse_theme_file up to the loop: the theme is constructed, the file opened
OpenFile ==
    /\ pc = "start"
    /\ theme' = NewTheme(file.name)
    /\ pc' = IF file.readable THEN "parse" ELSE "raised"
    /\ UNCHANGED <<file, pos, themeId, docs, written, mainVars, colourVars>>

\* one iteration of the loop over the lines
ReadLine ==
    /\ pc = "parse"
    /\ pos < Len(file.lines)
    /\ theme' = ParseLine(theme, file.lines[pos + 1])
    /\ pos' = pos + 1
    /\ UNCHANGED <<file, themeId, docs, written, pc, mainVars, colourVars>>

\* the parser returns; the generator is constructed with a fresh identifier
\* and the theme directory with resources/ and META-INF/ is created
NewGenerator ==
    /\ pc = "parse"
    /\ pos = Len(file.lines)
    /\ themeId' \in UuidValues
    /\ written' = written \cup {"theme_dir"}
    /\ pc' = "json"
    /\ UNCHANGED <<file, pos, theme, docs, mainVars, colourVars>>

WriteThemeJson ==
    /\ pc = "json"
    /\ IF ThemeJsonRaises(theme)
       THEN pc' = "raised" /\ UNCHANGED <<docs, written>>
       ELSE /\ docs' = [docs EXCEPT !.json = ThemeJsonEntries(theme)
                                               \cup ThemeJsonDark(theme, tieDark)]
            /\ written' = written \cup {"theme.json"}
            /\ pc' = "scheme"
    /\ UNCHANGED <<file, pos, theme, themeId, mainVars, colourVars>>

WriteEditorScheme ==
    /\ pc = "scheme"
    /\ IF EditorSchemeRaises(theme)
       THEN pc' = "raised" /\ UNCHANGED <<docs, written>>
       ELSE /\ docs' = [docs EXCEPT !.scheme = EditorSchemeEntries(theme)
                                                 \cup EditorSchemeDark(theme, tieDark)]
            /\ written' = written \cup {"scheme.xml"}
            /\ pc' = "plugin"
    /\ UNCHANGED <<file, pos, theme, themeId, mainVars, colourVars>>

WritePluginXml ==
    /\ pc = "plugin"
    /\ IF PluginXmlRaises(theme)
       THEN pc' = "raised" /\ UNCHANGED <<docs, written>>
       ELSE /\ docs' = [docs EXCEPT !.plugin = PluginXmlEntries(theme, themeId)
                                                 \cup PluginXmlDark(theme, tieDark)]
            /\ written' = written \cup {"plugin.xml"}
            /\ pc' = "package"
    /\ UNCHANGED <<file, pos, theme, themeId, mainVars, colourVars>>

\* the last step: the directory is returned, or packed into a JAR
Package ==
    /\ pc = "package"
    /\ \E create_dir \in BOOLEAN :
          written' = IF create_dir THEN written ELSE written \cup {"jar"}
    /\ pc' = "done"
    /\ UNCHANGED <<file, pos, theme, themeId, docs, mainVars, colourVars>>

Next ==
    \/ OpenFile
    \/ ReadLine
    \/ NewGenerator
    \/ WriteThemeJson
    \/ WriteEditorScheme
    \/ WritePluginXml
    \/ Package

Spec == Init /\ [][Next]_vars

(***************************************************************************)
(* convert_theme and the --icls conversion as main calls them: the whole   *)
(* call, with what it leaves in the output directory and whether it        *)
(* raised.                                                                 *)
(***************************************************************************)
Outcome(raised, files) == [raised |-> raised, written |-> files, content |-> <<>>]

ConvertParsed(th, create_dir) ==
    IF ThemeJsonRaises(th) THEN Outcome(TRUE, {"theme_dir"})
    ELSE IF EditorSchemeRaises(th) THEN Outcome(TRUE, {"theme_dir", "theme.json"})
    ELSE IF PluginXmlRaises(th)
    THEN Outcome(TRUE, {"theme_dir", "theme.json", "scheme.xml"})
    ELSE Outcome(FALSE, {"theme_dir", "theme.json", "scheme.xml", "plugin.xml"}
                        \cup (IF create_dir THEN {} ELSE {"jar"}))

\* convert_theme(f, output_path, create_dir)
ConvertTheme(f, create_dir) ==
    IF ~f.readable THEN Outcome(TRUE, {})
    ELSE ConvertParsed(ParseLines(NewTheme(f.name), f.lines), create_dir)

\* "\n".join(lines[scheme_start:]) written as <name>.icls; nothing is
\* written when no line holds '<scheme'
IclsWritten(lines, scheme_start) ==
    IF scheme_start = 0 THEN Outcome(FALSE, {})
    ELSE [raised |-> FALSE, written |-> {"icls"},
          content |-> SubSeq(lines, scheme_start, Len(lines))]

\* create_icls_file: the scheme is generated, cut at its first line holding
\* '<scheme' and written as <name>.icls
CreateIclsFile(th) ==
    IF EditorSchemeRaises(th) THEN Outcome(TRUE, {})
    ELSE IclsWritten(SchemeXmlLines(th), SchemeStart(SchemeXmlLines(th)))

\* parse_theme_file(f) followed by create_icls_file
ConvertIcls(f) ==
    IF ~f.readable THEN Outcome(TRUE, {})
    ELSE CreateIclsFile(ParseLines(NewTheme(f.name), f.lines))

\* Conversion without the --icls branches
ConversionIgnoresIcls(f, flags) == ConvertTheme(f, flags.dir)

\* the conversion main runs on one file under the given flags
Conversion(f, flags) ==
    IF flags.icls THEN ConvertIcls(f) ELSE ConvertTheme(f, flags.dir)

(***************************************************************************)
(* main                                                                    *)
(***************************************************************************)
\* theme_files: the entries of the directory that are regular files, as
\* indices into the listing, in its order
ThemeFilesOf(entries) ==
    LET IsFileAt(i) == entries[i].isFile
    IN  SelectSeq([i \in 1..Len(entries) |-> i], IsFileAt)

\* the status the process ends with: sys.exit(1) and an uncaught exception
\* both give 1, a return from main gives 0
ExitStatus(o) == IF o \in {"sys.exit", "uncaught"} THEN 1 ELSE 0

InitMain ==
    /\ ConvertIdle
    /\ ColourIdle
    /\ args \in ArgsSet
    /\ input \in InputPaths
    /\ mainPc = "start"
    /\ idx = 0
    /\ converted = 0
    /\ attempted = <<>>
    /\ failed = <<>>
    /\ summary = <<>>
    /\ output = NoOutput
    /\ outcome = "running"

SysExit ==
    /\ mainPc' = "exit"
    /\ outcome' = "sys.exit"

\* CheckInput with the test of --batch inverted
CheckInputBatchInverted ==
    /\ mainPc = "start"
    /\ IF input.kind = "missing"
       THEN SysExit /\ UNCHANGED output
       ELSE /\ output' = [output EXCEPT !.created = TRUE]
            /\ IF args.batch
               THEN IF input.kind = "dir"
                    THEN SysExit
                    ELSE mainPc' = "loop" /\ UNCHANGED outcome
               ELSE IF input.kind = "dir"
                    THEN SysExit
                    ELSE mainPc' = "single" /\ UNCHANGED outcome
    /\ UNCHANGED <<args, input, idx, converted, attempted, failed, summary,
                   convertVars, colourVars>>

\* main up to the conversions: the input path is checked, the output
\* directory created, the mode checked against the kind of the input
CheckInput ==
    /\ mainPc = "start"
    /\ IF input.kind = "missing"
       THEN SysExit /\ UNCHANGED output
       ELSE /\ output' = [output EXCEPT !.created = TRUE]
            /\ IF args.batch
               THEN IF input.kind # "dir"
                    THEN SysExit
                    ELSE mainPc' = "loop" /\ UNCHANGED outcome
               ELSE IF input.kind = "dir"
                    THEN SysExit
                    ELSE mainPc' = "single" /\ UNCHANGED outcome
    /\ UNCHANGED <<args, input, idx, converted, attempted, failed, summary,
                   convertVars, colourVars>>

\* what one conversion leaves behind: r is its outcome on entry i named name
Converted(i, name, r) ==
    /\ attempted' = Append(attempted, i)
    /\ output' = [output EXCEPT
                     !.files = @ \cup {<<name, w>> : w \in r.written},
                     !.icls = @ \cup (IF r.content = <<>> THEN {}
                                      ELSE {<<name, r.content>>})]

\* BatchIteration without the try/except: the exception leaves main
BatchIterationUncaught ==
    /\ mainPc = "loop"
    /\ idx < Len(ThemeFilesOf(input.entries))
    /\ \E i \in {ThemeFilesOf(input.entries)[idx + 1]} :
       \E r \in {Conversion(input.entries[i], args)} :
          /\ Converted(i, input.entries[i].name, r)
          /\ converted' = IF r.raised THEN converted ELSE converted + 1
          /\ failed' = failed
          /\ mainPc' = IF r.raised THEN "exit" ELSE mainPc
          /\ outcome' = IF r.raised THEN "uncaught" ELSE outcome
    /\ idx' = idx + 1
    /\ UNCHANGED <<args, input, summary, convertVars, colourVars>>

\* one iteration of the batch loop: the conversion of theme_files[idx] is
\* tried; converted counts it unless it raised, and then it is reported
BatchIteration ==
    /\ mainPc = "loop"
    /\ idx < Len(ThemeFilesOf(input.entries))
    /\ \E i \in {ThemeFilesOf(input.entries)[idx + 1]} :
       \E r \in {Conversion(input.entries[i], args)} :
          /\ Converted(i, input.entries[i].name, r)
          /\ converted' = IF r.raised THEN converted ELSE converted + 1
          /\ failed' = IF r.raised THEN Append(failed, i) ELSE failed
    /\ idx' = idx + 1
    /\ UNCHANGED <<args, input, mainPc, summary, outcome, convertVars, colourVars>>

\* after the loop: "Conversion complete: converted/total", and main returns
BatchSummary ==
    /\ mainPc = "loop"
    /\ idx = Len(ThemeFilesOf(input.entries))
    /\ summary' = <<converted, Len(ThemeFilesOf(input.entries))>>
    /\ mainPc' = "exit"
    /\ outcome' = "returned"
    /\ UNCHANGED <<args, input, idx, converted, attempted, failed, output,
                   convertVars, colourVars>>

\* single-file mode: the conversion is not guarded, an exception leaves main
SingleConversion ==
    /\ mainPc = "single"
    /\ \E r \in {Conversion(input.entries[1], args)} :
          /\ Converted(1, input.entries[1].name, r)
          /\ outcome' = IF r.raised THEN "uncaught" ELSE "returned"
    /\ mainPc' = "exit"
    /\ UNCHANGED <<args, input, idx, converted, failed, summary,
                   convertVars, colourVars>>

NextMain ==
    \/ CheckInput
    \/ BatchIteration
    \/ BatchSummary
    \/ SingleConversion

SpecMain == InitMain /\ [][NextMain]_vars

(***************************************************************************)
(* One call of a colour function                                           *)
(***************************************************************************)
InitColour ==
    /\ ConvertIdle
    /\ MainIdle
    /\ call \in BlendCalls \cup AdjustCalls \cup IsDarkCalls
    /\ result = <<>>
    /\ tieDark \in BOOLEAN

CallBlendColors ==
    /\ call.op = "blend_colors"
    /\ result = <<>>
    /\ result' = BlendColors(call.color1, call.color2, FLit(call.num[1], call.num[2]))
    /\ UNCHANGED <<call, tieDark, convertVars, mainVars>>

CallAdjustBrightness ==
    /\ call.op = "adjust_brightness"
    /\ result = <<>>
    /\ result' = AdjustBrightness(call.color1, FLit(call.num[1], call.num[2]))
    /\ UNCHANGED <<call, tieDark, convertVars, mainVars>>

\* theme.is_dark for a theme of background call.color1
CallIsDark ==
    /\ call.op = "is_dark"
    /\ result = <<>>
    /\ result' = IF LuminanceRaises(call.color1) THEN <<"ValueError">>
                  ELSE IF IsDark(call.color1, tieDark) THEN <<"True">>
                  ELSE <<"False">>
    /\ UNCHANGED <<call, tieDark, convertVars, mainVars>>

NextColour ==
    \/ CallBlendColors
    \/ CallAdjustBrightness
    \/ CallIsDark

SpecColour == InitColour /\ [][NextColour]_vars

(***************************************************************************)
(* The claims about the parser.  A line is described here by what the      *)
(* file format says of it, not by how the loop treats it.                  *)
(***************************************************************************)
\* the text of a line without the surrounding whitespace
Meaningful(raw) == Strip(raw)

\* blank lines and comments
IsBlankOrComment(raw) == Meaningful(raw) = <<>> \/ Meaningful(raw)[1] = "#"

HasEq(raw) == \E i \in 1..Len(raw) : raw[i] = "="

\* the key of a key=value line: the text before the first '='
KeyOf(raw) ==
    LET l == Meaningful(raw)
        i == CHOOSE k \in 1..Len(l) : l[k] = "=" /\ \A j \in 1..(k - 1) : l[j] # "="
    IN  Strip(SubSeq(l, 1, i - 1))

\* the value of a key=value line: the text after the first '='
ValueOf(raw) ==
    LET l == Meaningful(raw)
        i == CHOOSE k \in 1..Len(l) : l[k] = "=" /\ \A j \in 1..(k - 1) : l[j] # "="
    IN  Strip(SubSeq(l, i + 1, Len(l)))

IsSetting(raw) == ~IsBlankOrComment(raw) /\ HasEq(raw)

ColourKeys ==
    {KeyBackground, KeyForeground, KeyCursorColor, KeyCursorText,
     KeySelectionBackground, KeySelectionForeground}

\* the field of the theme a colour key names
FieldOf(th, key) ==
    IF key = KeyBackground THEN th.background
    ELSE IF key = KeyForeground THEN th.foreground
    ELSE IF key = KeyCursorColor THEN th.cursor_color
    ELSE IF key = KeyCursorText THEN th.cursor_text
    ELSE IF key = KeySelectionBackground THEN th.selection_background
    ELSE th.selection_foreground

\* the lines read so far that set the key
LinesSetting(key) ==
    {i \in 1..pos : IsSetting(file.lines[i]) /\ KeyOf(file.lines[i]) = key}

LastOf(S) == CHOOSE i \in S : \A j \in S : j <= i

\* a line that is blank, a comment, without '=', or of an unknown key
IsIgnoredLine(raw) ==
    \/ ~IsSetting(raw)
    \/ KeyOf(raw) \notin ColourKeys \cup {KeyPalette}

Parsing == pc \notin {"start", "raised"} \/ (pc = "raised" /\ file.readable)

C1_LastValue ==
    Parsing =>
        \A key \in ColourKeys :
            LinesSetting(key) # {} =>
                FieldOf(theme, key) = ValueOf(file.lines[LastOf(LinesSetting(key))])

C1_IgnoredFrame ==
    (pc = "parse" /\ pos' = pos + 1 /\ IsIgnoredLine(file.lines[pos + 1]))
        => theme' = theme

\* C1: after any number of lines, each of the six colour fields that some
\* line read so far sets holds the stripped value of the last such line,
\* whatever that value is; and reading a blank line, a comment, a line
\* without '=' or a line of an unknown key changes no field and no slot.
C1_LastOccurrenceWins == [](C1_LastValue) /\ [][C1_IgnoredFrame]_vars

\* C1 witness: two lines set the background to different values, the second
\* with spaces around it, and the theme holds the second, stripped
C1_Witness ==
    /\ pc = "parse" /\ pos = 2
    /\ LinesSetting(KeyBackground) = {1, 2}
    /\ ValueOf(file.lines[1]) # ValueOf(file.lines[2])
    /\ file.lines[2] # Strip(file.lines[2])
    /\ theme.background = ValueOf(file.lines[2])

IsPaletteLine(raw) == IsSetting(raw) /\ KeyOf(raw) = KeyPalette

\* the inner index=color of a palette line is readable
InnerReadable(raw) ==
    /\ HasEq(ValueOf(raw))
    /\ PyInt(SplitEq(ValueOf(raw))[1], 10).ok

InnerIndex(raw) == PyInt(SplitEq(ValueOf(raw))[1], 10).val

InnerColour(raw) == Strip(SplitEq(ValueOf(raw))[2])

SamePaletteExcept(p, q, slot) ==
    /\ DOMAIN q = DOMAIN p \cup {slot}
    /\ \A k \in DOMAIN p : k # slot => q[k] = p[k]

PaletteLineEffect(raw) ==
    IF InnerReadable(raw)
    THEN /\ InnerIndex(raw) \in DOMAIN theme'.palette
         /\ theme'.palette[InnerIndex(raw)] = InnerColour(raw)
         /\ SamePaletteExcept(theme.palette, theme'.palette, InnerIndex(raw))
         /\ [theme' EXCEPT !.palette = theme.palette] = theme
    ELSE theme' = theme /\ pc' = "parse"

\* C2: reading a palette line whose index is an integer sets that slot to the
\* colour and nothing else (palette=4=#123456 sets slot 4 to #123456);
\* reading a palette line without inner '=' or with an unreadable index
\* raises nothing and leaves every field and every slot as it was.
C2_PaletteLine ==
    [][(pc = "parse" /\ pos' = pos + 1 /\ IsPaletteLine(file.lines[pos + 1]))
          => /\ PaletteLineEffect(file.lines[pos + 1])
             /\ (file.lines[pos + 1] = <<"p", "a", "l", "e", "t", "t", "e", "=", "4", "=", "#", "1", "2", "3", "4", "5", "6">>
                    => theme'.palette[4] = <<"#", "1", "2", "3", "4", "5", "6">>)]_vars

\* C2 witness: slot 4 was set by an earlier line and the malformed line
\* palette=x=#123456 has just been read without losing it
C2_Witness ==
    /\ pc = "parse" /\ pos = 2
    /\ file.lines[1] = <<"p", "a", "l", "e", "t", "t", "e", "=", "4", "=", "#", "1", "2", "3", "4", "5", "6">>
    /\ IsPaletteLine(file.lines[2]) /\ ~InnerReadable(file.lines[2])
    /\ HasEq(ValueOf(file.lines[2]))
    /\ DOMAIN theme.palette = {4}
    /\ theme.palette[4] = <<"#", "1", "2", "3", "4", "5", "6">>

HexDigitChars ==
    {"0", "1", "2", "3", "4", "5", "6", "7", "8", "9",
     "a", "b", "c", "d", "e", "f", "A", "B", "C", "D", "E", "F"}

\* '#' followed by six hex digits
IsHexColour(s) ==
    Len(s) = 7 /\ s[1] = "#" /\ \A i \in 2..7 : s[i] \in HexDigitChars

\* the fallbacks of the data model
DefaultOf(key) ==
    IF key \in {KeyBackground, KeyCursorText, KeySelectionForeground}
    THEN <<"#", "0", "0", "0", "0", "0", "0">>
    ELSE <<"#", "f", "f", "f", "f", "f", "f">>

\* C3: while and after parsing, every colour field that no line read so far
\* sets holds its default, a '#' and six hex digits (#000000 for
\* background, cursor text and selection foreground, #ffffff for the
\* others), and the palette is empty when no palette line has been parsed.
C3_Defaults ==
    Parsing =>
        /\ \A key \in ColourKeys :
              LinesSetting(key) = {} =>
                  FieldOf(theme, key) = DefaultOf(key) /\ IsHexColour(FieldOf(theme, key))
        /\ (\A i \in 1..pos : ~(IsPaletteLine(file.lines[i]) /\ InnerReadable(file.lines[i])))
              => DOMAIN theme.palette = {}

\* C3 witness: a file of two lines that set only the foreground has been
\* parsed, and the other five fields hold their defaults
C3_Witness ==
    /\ pc = "json" /\ pos = 2
    /\ LinesSetting(KeyForeground) = {1, 2}
    /\ theme.foreground # DefaultOf(KeyForeground)
    /\ \A key \in ColourKeys \ {KeyForeground} : FieldOf(theme, key) = DefaultOf(key)
    /\ DOMAIN theme.palette = {}

\* C4: whatever a readable theme file contains, parsing it and generating
\* the three documents raises nothing.
C4_MalformedNeverRaises == file.readable => pc # "raised"

(***************************************************************************)
(* The claims about the generated documents.                               *)
(***************************************************************************)
\* the documented fallback of a palette slot
DocumentedFallback(slot) ==
    IF slot = 1 THEN <<"#", "f", "f", "0", "0", "0", "0">>
    ELSE IF slot = 2 THEN <<"#", "0", "0", "a", "a", "0", "0">>
    ELSE IF slot = 3 THEN <<"#", "f", "f", "a", "a", "0", "0">>
    ELSE IF slot = 4 THEN <<"#", "0", "0", "7", "8", "d", "4">>
    ELSE IF slot = 5 THEN <<"#", "f", "f", "0", "0", "f", "f">>
    ELSE IF slot = 6 THEN <<"#", "0", "0", "f", "f", "f", "f">>
    ELSE <<"#", "5", "5", "5", "5", "5", "5">>

\* a colour as written, compared without '#' and without case
SameColour(a, b) == Lower(LStripHash(a)) = Lower(LStripHash(b))

\* C7: in each of the three documents, every entry that carries the colour
\* of a palette slot absent from the theme carries the documented fallback
\* of that slot.
C7_DocumentedFallbacks ==
    \A d \in {docs.json, docs.scheme, docs.plugin} :
        \A e \in d :
            (e.slot \in {1, 2, 3, 4, 5, 6, 8} /\ e.slot \notin DOMAIN theme.palette)
                => SameColour(e.value, DocumentedFallback(e.slot))

(***************************************************************************)
(* The claims about main.                                                  *)
(***************************************************************************)
\* the regular files of the input directory
RegularFiles == ThemeFilesOf(input.entries)

\* the conversion of the k-th regular file raises
RaisesAt(k) == Conversion(input.entries[RegularFiles[k]], args).raised

\* the regular files among the first n whose conversion raises / does not
RaisingUpTo(n) == SelectSeq(SubSeq(RegularFiles, 1, n),
                            LAMBDA i : Conversion(input.entries[i], args).raised)

InBatchLoop == args.batch /\ input.kind = "dir" /\ mainPc \in {"loop", "exit"}

\* a directory of one well-formed and one failing file, in either order
OneGoodOneFailing ==
    input.entries \in
        { <<EntryOf(good, FileNames[1]), EntryOf(bad, FileNames[2])>> :
              good \in {"wellformed"}, bad \in {"unreadable", "malformed"} }
        \cup { <<EntryOf(bad, FileNames[1]), EntryOf(good, FileNames[2])>> :
              good \in {"wellformed"}, bad \in {"unreadable", "malformed"} }

\* C5: in batch mode over a directory main never ends by an exception or
\* an exit; the files attempted so far are the first idx regular files, each
\* once and in order; converted counts exactly those of them whose
\* conversion did not raise, the others are reported; when main ends every
\* regular file has been attempted and the summary is converted/total (1/2
\* for one well-formed and one failing file).
C5_BatchNeverAborts ==
    InBatchLoop =>
        /\ outcome \in {"running", "returned"}
        /\ idx <= Len(RegularFiles)
        /\ attempted = SubSeq(RegularFiles, 1, idx)
        /\ converted = Cardinality({k \in 1..idx : ~RaisesAt(k)})
        /\ failed = RaisingUpTo(idx)
        /\ mainPc = "exit" =>
              /\ idx = Len(RegularFiles)
              /\ outcome = "returned"
              /\ summary = <<Cardinality({k \in 1..Len(RegularFiles) : ~RaisesAt(k)}),
                             Len(RegularFiles)>>
              /\ (OneGoodOneFailing => summary = <<1, 2>>)

\* C5 witness: the first file cannot be opened, the second is well formed;
\* both were attempted and main returned after reporting 1/2
C5_Witness ==
    /\ args.batch /\ mainPc = "exit" /\ outcome = "returned"
    /\ input.kind = "dir"
    /\ input.entries = <<EntryOf("unreadable", FileNames[1]), EntryOf("wellformed", FileNames[2])>>
    /\ attempted = <<1, 2>>
    /\ failed = <<1>>
    /\ summary = <<1, 2>>

\* the input-path error cases
InputPathError ==
    \/ input.kind = "missing"
    \/ (args.batch /\ input.kind # "dir")
    \/ (~args.batch /\ input.kind = "dir")

\* C6 as stated: main ends with status 1 exactly in the input-path error
\* cases, and in each of them no conversion of any file is attempted.
C6_ExitOneExactly ==
    mainPc = "exit" =>
        /\ (ExitStatus(outcome) = 1) <=> InputPathError
        /\ InputPathError => (attempted = <<>> /\ output.files = {})

\* C6 amended: in each input-path error case main ends by sys.exit(1), so
\* with status 1, and no conversion of any file is attempted; and main calls
\* sys.exit(1) in no other case (a status of 1 may also come from an
\* exception leaving a single-file conversion).
C6_InputPathErrorExits ==
    mainPc = "exit" =>
        /\ InputPathError =>
              /\ outcome = "sys.exit"
              /\ ExitStatus(outcome) = 1
              /\ attempted = <<>>
              /\ output.files = {}
        /\ outcome = "sys.exit" => InputPathError

\* C6 witness: --batch with an input that is a file; main has exited by
\* sys.exit(1) after creating the output directory, with nothing converted
C6_Witness ==
    /\ mainPc = "exit" /\ outcome = "sys.exit"
    /\ args.batch /\ input.kind = "file"
    /\ ExitStatus(outcome) = 1
    /\ attempted = <<>>
    /\ output.created

(***************************************************************************)
(* The claims about the colour functions.                                  *)
(***************************************************************************)
Returned == result # <<>>

\* C8: blend_colors(a, b, 0.0) returns a and blend_colors(a, b, 1.0) returns
\* b, as lowercase #rrggbb.
C8_BlendEndpoints ==
    (call.op = "blend_colors" /\ Returned) =>
        /\ call.num = <<0, 1>> => result = Lower(call.color1)
        /\ call.num = <<1, 1>> => result = Lower(call.color2)

\* C8 witness: #ABCDEF and #00050f blended with ratio 1.0 gave #00050f
C8_Witness ==
    /\ call.op = "blend_colors" /\ Returned
    /\ call.color1 = <<"#", "A", "B", "C", "D", "E", "F">>
    /\ call.color2 = <<"#", "0", "0", "0", "5", "0", "f">>
    /\ call.num = <<1, 1>>
    /\ result = <<"#", "0", "0", "0", "5", "0", "f">>

\* C9: blend_colors(c, c, r) returns c for every ratio r.
C9_BlendSelf ==
    (call.op = "blend_colors" /\ Returned /\ call.color1 = call.color2)
        => result = Lower(call.color1)

\* C10: adjust_brightness(c, 0.0) returns c.
C10_AdjustZero ==
    (call.op = "adjust_brightness" /\ Returned /\ call.num = <<0, 1>>)
        => result = Lower(call.color1)

\* C11: adjust_brightness absorbs out-of-range factors: it returns a '#' and
\* six lowercase hex digits (every channel in 0..255), for factor +2.0 what
\* it returns for +1.0, and for -2.0 what it returns for -1.0.
C11_ClampAbsorbs ==
    (call.op = "adjust_brightness" /\ Returned) =>
        /\ IsHexColour(result) /\ result = Lower(result)
        /\ call.num = <<2, 1>> => result = AdjustBrightness(call.color1, FLit(1, 1))
        /\ call.num = <<-2, 1>> => result = AdjustBrightness(call.color1, FLit(-1, 1))

\* C11 witness: #00050f with factor +2.0 came back at full brightness, as
\* it does with factor +1.0
C11_Witness ==
    /\ call.op = "adjust_brightness" /\ Returned
    /\ call.color1 = <<"#", "0", "0", "0", "5", "0", "f">>
    /\ call.num = <<2, 1>>
    /\ result = AdjustBrightness(call.color1, FLit(1, 1))
    /\ result = <<"#", "0", "0", "5", "4", "f", "f">>

(***************************************************************************)
(* The claims about the dark/light classification.                         *)
(***************************************************************************)
\* the luminance of the colour is below 0.5, or at least 0.5, by more than
\* the width of its enclosure
SurelyBelowHalf(hex_color) ==
    LuminanceBound(ParseHex(hex_color), TRUE) + 1 < 5000 * LumScale

SurelyAtLeastHalf(hex_color) ==
    LuminanceBound(ParseHex(hex_color), FALSE) - 1 >= 5000 * LumScale

\* C12: for a background of '#' and six hex digits is_dark returns True when
\* the relative luminance is below 0.5 and False when it is not; #000000 and
\* the background of a theme without background line are dark, #ffffff is
\* light, and of the greys next to the threshold #bbbbbb (luminance 0.4969)
\* is dark and #bcbcbc (0.5029) is light.
C12_IsDarkByLuminance ==
    (call.op = "is_dark" /\ Returned /\ IsHexColour(call.color1)) =>
        /\ result \in {<<"True">>, <<"False">>}
        /\ SurelyBelowHalf(call.color1) => result = <<"True">>
        /\ SurelyAtLeastHalf(call.color1) => result = <<"False">>
        /\ call.color1 = <<"#", "0", "0", "0", "0", "0", "0">> => result = <<"True">>
        /\ call.color1 = NewTheme(ThemeFileName).background => result = <<"True">>
        /\ call.color1 = <<"#", "f", "f", "f", "f", "f", "f">> => result = <<"False">>
        /\ call.color1 = <<"#", "b", "b", "b", "b", "b", "b">> => result = <<"True">>
        /\ call.color1 = <<"#", "b", "c", "b", "c", "b", "c">> => result = <<"False">>

\* C12 witness: the grey just above the threshold was classified light
C12_Witness ==
    /\ call.op = "is_dark" /\ Returned
    /\ call.color1 = <<"#", "b", "c", "b", "c", "b", "c">>
    /\ SurelyAtLeastHalf(call.color1)
    /\ result = <<"False">>

(***************************************************************************)
(* The claims about the editor colour scheme.                              *)
(***************************************************************************)
\* the palette slot of each syntax role, as the format documents it
RoleSlots ==
    { <<"DEFAULT_KEYWORD", 5>>, <<"DEFAULT_STRING", 2>>, <<"DEFAULT_NUMBER", 1>>,
      <<"DEFAULT_COMMENT", 8>>, <<"DEFAULT_FUNCTION_DECLARATION", 4>>,
      <<"DEFAULT_CLASS_NAME", 3>>, <<"DEFAULT_CONSTANT", 6>> }

\* the values the scheme carries for a role
ValuesOf(role) == {e.value : e \in {d \in docs.scheme : d.role = role}}

UpperHexChars ==
    {"0", "1", "2", "3", "4", "5", "6", "7", "8", "9", "A", "B", "C", "D", "E", "F"}

\* six hex digits in upper case, without '#'
IsUpperHex6(v) == Len(v) = 6 /\ \A i \in 1..6 : v[i] \in UpperHexChars

\* the options of the colors section and the theme field each one writes
TopLevelOptions ==
    { <<"BACKGROUND", KeyBackground>>, <<"FOREGROUND", KeyForeground>>,
      <<"CARET_COLOR", KeyCursorColor>>,
      <<"SELECTION_BACKGROUND", KeySelectionBackground>>,
      <<"SELECTION_FOREGROUND", KeySelectionForeground>>,
      <<"GUTTER_BACKGROUND", KeyBackground>> }

\* the colour a nested value is written from, when it is well formed:
\* absent slots fall back to well-formed colours
NestedWellFormed(slot) ==
    slot \in DOMAIN theme.palette => IsHexColour(theme.palette[slot])

\* C14: in a generated editor scheme a well-formed colour ('#' and six hex
\* digits) is written in a nested attribute value as its six digits in upper
\* case without '#', and in an option of the colors section as '#' and its
\* six digits in upper case.
C14_HashAsymmetry ==
    docs.scheme # {} =>
        /\ \A rs \in RoleSlots :
              NestedWellFormed(rs[2]) =>
                  \A v \in ValuesOf(rs[1]) :
                      /\ IsUpperHex6(v)
                      /\ rs[2] \in DOMAIN theme.palette => SameColour(v, theme.palette[rs[2]])
        /\ IsHexColour(theme.foreground) =>
              \A v \in ValuesOf("DEFAULT_IDENTIFIER") :
                  IsUpperHex6(v) /\ SameColour(v, theme.foreground)
        /\ \A o \in TopLevelOptions :
              IsHexColour(FieldOf(theme, o[2])) =>
                  /\ ValuesOf(o[1]) # {}
                  /\ \A v \in ValuesOf(o[1]) :
                        /\ Len(v) = 7 /\ v[1] = "#" /\ IsUpperHex6(Tail(v))
                        /\ SameColour(v, FieldOf(theme, o[2]))

\* C14 witness: the foreground #d4d4d4 is written as #D4D4D4 in the colors
\* section and as D4D4D4 for the identifier
C14_Witness ==
    /\ pc = "plugin"
    /\ theme.foreground = <<"#", "d", "4", "d", "4", "d", "4">>
    /\ ValuesOf("FOREGROUND") = {<<"#", "D", "4", "D", "4", "D", "4">>}
    /\ ValuesOf("DEFAULT_IDENTIFIER") = {<<"D", "4", "D", "4", "D", "4">>}

CanDraw(u) == ENABLED (NewGenerator /\ themeId' = u)

\* C16: the identifier of the themeProvider entry is determined by the
\* theme: where a conversion constructs its generator, a second conversion
\* of the same file being in the same state, one identifier only can come out.
C16_StableIdentifier ==
    \A u \in UuidValues : \A v \in UuidValues : (CanDraw(u) /\ CanDraw(v)) => u = v

(***************************************************************************)
(* The claims about blend_colors as an interpolation.                      *)
(***************************************************************************)
\* a * (1 - ratio) + b * ratio for the ratio num[1] / num[2], in exact
\* arithmetic, truncated toward zero (the value is not negative)
ExactBlend(a, b, num) == (a * (num[2] - num[1]) + b * num[1]) \div num[2]

\* C17: for valid colours and a ratio in [0, 1], each channel of what
\* blend_colors returns is A * (1 - r) + B * r truncated toward zero, so it
\* lies between the smaller and the larger of the two input channels, and
\* the result is a '#' and six lowercase hex digits.
C17_BlendTruncates ==
    (call.op = "blend_colors" /\ Returned) =>
        /\ IsHexColour(result) /\ result = Lower(result)
        /\ \A ch \in {"r", "g", "b"} :
              /\ ParseHex(result)[ch]
                    = ExactBlend(ParseHex(call.color1)[ch], ParseHex(call.color2)[ch], call.num)
              /\ ParseHex(result)[ch]
                    >= Min2(ParseHex(call.color1)[ch], ParseHex(call.color2)[ch])
              /\ ParseHex(result)[ch]
                    <= Max2(ParseHex(call.color1)[ch], ParseHex(call.color2)[ch])

(***************************************************************************)
(* The claims about what an input-path error leaves behind.                *)
(***************************************************************************)
\* C18: when main has ended on an input-path error (input missing, --batch
\* with an input that is no directory, a directory without --batch), the
\* output directory has not been created and no file has been written.
C18_NothingCreated ==
    (mainPc = "exit" /\ InputPathError /\ ExitStatus(outcome) = 1) =>
        /\ ~output.created
        /\ output.files = {}
        /\ output.icls = {}

(***************************************************************************)
(* The claims about the dark/light classification of one conversion.       *)
(***************************************************************************)
\* the values a document carries for a role
DocValues(doc, role) == {e.value : e \in {d \in doc : d.role = role}}

\* the theme JSON says dark, and the dark branch of _derive_ui_colors was taken
JsonDark == DocValues(docs.json, "dark") = {<<"t", "r", "u", "e">>}

JsonLight == DocValues(docs.json, "dark") = {<<"f", "a", "l", "s", "e">>}

DarkBranch ==
    DocValues(docs.json, "ui.Panel.background=adjust_brightness(bg)") = {<<"0", ".", "1">>}

LightBranch ==
    DocValues(docs.json, "ui.Panel.background=adjust_brightness(bg)")
        = {<<"-", "0", ".", "0", "5">>}

\* the classification is the same in all the documents generated so far
DarkAgrees ==
    /\ docs.json # {} =>
          /\ JsonDark \/ JsonLight
          /\ JsonDark <=> DarkBranch
          /\ JsonLight <=> LightBranch
    /\ docs.scheme # {} =>
          /\ JsonDark <=> DocValues(docs.scheme, "parent_scheme")
                              = {<<"D", "a", "r", "c", "u", "l", "a">>}
          /\ JsonLight <=> DocValues(docs.scheme, "parent_scheme")
                              = {<<"D", "e", "f", "a", "u", "l", "t">>}
    /\ docs.plugin # {} =>
          /\ JsonDark <=> DocValues(docs.plugin, "description.theme")
                              = {<<"D", "a", "r", "k">>}
          /\ JsonLight <=> DocValues(docs.plugin, "description.theme")
                              = {<<"L", "i", "g", "h", "t">>}

\* a step of the generator: the theme JSON, the editor scheme, the plugin
\* descriptor or the packaging
GeneratorStep == pc \in {"json", "scheme", "plugin", "package"} /\ pc' # pc

\* C19: in one conversion the theme JSON's dark flag is true iff the dark
\* branch of the UI colour derivation was taken (panel background by +0.1,
\* not -0.05), iff the editor scheme's parent_scheme is Darcula (otherwise
\* Default), iff the plugin descriptor says Dark (otherwise Light); and no
\* step of the generator changes the theme.
C19_DarkConsistent ==
    /\ []DarkAgrees
    /\ [][GeneratorStep => theme' = theme]_vars

\* C19 witness: a theme of background #FFFFFF has been converted: dark is
\* false, the light branch was taken, the parent scheme is Default and the
\* descriptor says Light
C19_Witness ==
    /\ pc = "done"
    /\ theme.background = <<"#", "F", "F", "F", "F", "F", "F">>
    /\ JsonLight /\ LightBranch
    /\ DocValues(docs.scheme, "parent_scheme") = {<<"D", "e", "f", "a", "u", "l", "t">>}
    /\ DocValues(docs.plugin, "description.theme") = {<<"L", "i", "g", "h", "t">>}

=============================================================================
